---- MODULE Spec2Model ----
(***************************************************************************)
(* Model of the evaluation and orchestration core of the financial        *)
(* insights copilot: the QueryOrchestrator workflow graph                  *)
(* (src/orchestration/workflow.py), the EvaluationPipeline                 *)
(* (src/evaluation/evaluator.py) and the scorers it calls.                 *)
(*                                                                         *)
(* Scores are floats in the code, rounded to 4 decimals; here a score is   *)
(* an integer number of ten-thousandths (SCALE = 1.0).                     *)
(* None is the empty tuple <<>>, a present value x is <<x>>.               *)
(***************************************************************************)
EXTENDS Integers, Sequences, FiniteSets, TLC

\* ------------------------------------------------------------- constants

\* round(x, 4): one unit is 0.0001
SCALE == 10000

MAX_REGENERATION_ATTEMPTS == 2

DEFAULT_NUM_SAMPLES == 2

\* Settings: hallucination_threshold = 0.7
hallucination_threshold == 7000

\* Settings: consistency_threshold = 0.8
consistency_threshold == 8000

\* Settings: min_confidence_score = 0.6
min_confidence_score == 6000

\* the literal 0.8 of _determine_status (hard fail)
HARD_FAIL_SCORE == 8000

\* the literal 0.8 of _should_regenerate
REGENERATE_SCORE == 8000

\* the neutral score 0.5 used by every local recovery
NEUTRAL == 5000

\* @retry(stop=stop_after_attempt(3)) of LLMClient.generate
LLM_STOP_AFTER_ATTEMPT == 3

\* @retry(stop=stop_after_attempt(3)) of EmbeddingService.embed_texts
EMBED_STOP_AFTER_ATTEMPT == 3

MAX_BATCH_SIZE == 2048

\* _reciprocal_rank_fusion(..., k: int = 60)
RRF_K == 60

\* ---------------------------------------------------------------- bounds

\* distinct response bodies the language model can produce
NumTexts == 1

\* most chunks the retriever returns
MaxChunks == 1

\* longest flag list handed to _determine_status on its own
MaxFlags == 3

\* most samples asked of ConsistencyScorer.score on its own
MaxSamples == 2

\* embed_texts calls running concurrently on the shared EmbeddingService
NumCalls == 2

\* longest result list handed to _reciprocal_rank_fusion on its own
MaxRanked == 2

MaxSources == 2

\* execute calls in flight at the same time
NumRequests == 2

\* ----------------------------------------------------------- arithmetic

None == <<>>

Some(x) == <<x>>

Min2(a, b) == IF a < b THEN a ELSE b

Max2(a, b) == IF a > b THEN a ELSE b

\* min(max(x, 0.0), 1.0)
Clamp01(x) == Min2(Max2(x, 0), SCALE)

\* floor(n / d) for d > 0 and any integer n
FloorDiv(n, d) == IF n >= 0 THEN n \div d ELSE -((-n + d - 1) \div d)

\* round(n / d, 4) in units: Python rounds half to even
RoundDiv(n, d) ==
    LET q == FloorDiv(n, d)
        r == n - q * d
    IN  IF 2 * r < d THEN q
        ELSE IF 2 * r > d THEN q + 1
        ELSE IF q % 2 = 0 THEN q ELSE q + 1

RECURSIVE SumSeq(_)
SumSeq(s) == IF s = <<>> THEN 0 ELSE Head(s) + SumSeq(Tail(s))

\* an exception in flight: its class and the call that raised it
Exc(cls, origin) == [cls |-> cls, origin |-> origin]

NoExc == Exc("", "")

\* float("nan"), which json.loads reads from the literal NaN: a value apart
\* from every score. Arithmetic on it gives NaN, every comparison with it is
\* false, and so max(NaN, 0.0) and min(NaN, 1.0) are NaN
NaN == -(SCALE * SCALE)

\* the comparisons of two floats: false as soon as one of them is NaN
Gt(a, b) == a # NaN /\ b # NaN /\ a > b

Lt(a, b) == a # NaN /\ b # NaN /\ a < b

Ge(a, b) == a # NaN /\ b # NaN /\ a >= b

Le(a, b) == a # NaN /\ b # NaN /\ a <= b

\* ------------------------------------------------ HallucinationDetector

\* What the judge call of _llm_judge_verification can come back with:
\*   llm_error    LLMClient.generate raised LLMError (retries exhausted)
\*   parse_error  the text is not JSON, or a score is null: json.JSONDecodeError,
\*                KeyError or TypeError, the classes the except clause names
\*   value_error  a score is a non-numeric string: ValueError from float()
\*   ok           a JSON object with numeric scores, possibly out of [0,1]
JudgeOutcomes ==
    { [kind |-> k, hallucination_score |-> 0, factual_grounding_score |-> 0,
       claims |-> 0] : k \in {"llm_error", "parse_error", "value_error"} }
    \cup
    { [kind |-> "ok", hallucination_score |-> h,
       factual_grounding_score |-> SCALE - h, claims |-> 1]
      : h \in {0, 10000, 12000} }

\* the neutral HallucinationResult of the except branch
JudgeNeutral ==
    [exc |-> NoExc, hallucination_score |-> NEUTRAL,
     factual_grounding_score |-> NEUTRAL, claims |-> 0]

_llm_judge_verification(out) ==
    CASE out.kind = "llm_error" ->
           [JudgeNeutral EXCEPT !.exc = Exc("LLMError", "hallucination_judge_call")]
      [] out.kind = "value_error" ->
           [JudgeNeutral EXCEPT !.exc = Exc("ValueError", "hallucination_judge_output")]
      [] out.kind = "parse_error" -> JudgeNeutral
      [] OTHER ->
           [exc |-> NoExc, hallucination_score |-> out.hallucination_score,
            factual_grounding_score |-> out.factual_grounding_score,
            claims |-> out.claims]

\* financial entities are tokens; _extract_financial_entities gives a set
Entities == {"$394.3 billion", "8%"}

\* matched / len(response_entities), in units
_entity_overlap_check(response_entities, source_entities) ==
    IF response_entities = {} THEN SCALE
    ELSE IF source_entities = {} THEN NEUTRAL
    ELSE RoundDiv(Cardinality(response_entities \cap source_entities) * SCALE,
                  Cardinality(response_entities))

\* cosine similarities of the response with one chunk, in units
SimilarityValues == {-5000, 10000}

RECURSIVE MaxSeq(_)
MaxSeq(s) == IF Len(s) = 1 THEN Head(s) ELSE Max2(Head(s), MaxSeq(Tail(s)))

\* out.kind = "error": embed_query / embed_texts / cosine_similarity raised
_semantic_similarity_check(source_chunks, out) ==
    IF source_chunks = <<>> THEN 0
    ELSE IF out.kind = "error" THEN NEUTRAL
    ELSE IF out.sims = <<>> THEN 0 ELSE MaxSeq(out.sims)

SemanticOutcomes(source_chunks) ==
    { [kind |-> "error", sims |-> <<>>] }
    \cup { [kind |-> "ok", sims |-> s]
           : s \in [1..Len(source_chunks) -> SimilarityValues] }

\* 0.6 * judge + 0.2 * (1 - entity) + 0.2 * (1 - semantic), clamped, rounded
CombineHallucination(judge_h, entity_score, semantic_score) ==
    IF judge_h = NaN THEN NaN
    ELSE
    RoundDiv(Min2(Max2(6 * judge_h + 2 * (SCALE - entity_score)
                       + 2 * (SCALE - semantic_score), 0), 10 * SCALE), 10)

CombineGrounding(judge_g, entity_score, semantic_score) ==
    IF judge_g = NaN THEN NaN
    ELSE
    RoundDiv(Min2(Max2(6 * judge_g + 2 * entity_score + 2 * semantic_score, 0),
                  10 * SCALE), 10)

detect(judge_out, response_entities, source_entities, source_chunks, sem_out) ==
    LET llm_result == _llm_judge_verification(judge_out)
        entity_score == _entity_overlap_check(response_entities, source_entities)
        semantic_score == _semantic_similarity_check(source_chunks, sem_out)
    IN  [exc |-> llm_result.exc,
         hallucination_score |->
             CombineHallucination(llm_result.hallucination_score,
                                  entity_score, semantic_score),
         factual_grounding_score |->
             CombineGrounding(llm_result.factual_grounding_score,
                              entity_score, semantic_score),
         claims |-> llm_result.claims,
         entity_overlap_score |-> entity_score,
         semantic_similarity_score |-> semantic_score]

\* ---------------------------------------------------- ConsistencyScorer

\* What one pairwise judge call of _compare_pair can come back with (kinds
\* as for the hallucination judge); ok carries the judged score
PairOutcomes ==
    { [kind |-> k, score |-> 0] : k \in {"llm_error", "parse_error"} }
    \cup { [kind |-> "ok", score |-> v] : v \in {10000, 15000} }

_compare_pair(out) ==
    CASE out.kind = "llm_error" ->
           [exc |-> Exc("LLMError", "pairwise_judge_call"), score |-> 0,
            discrepancies |-> <<>>]
      [] out.kind = "value_error" ->
           [exc |-> Exc("ValueError", "pairwise_judge_output"), score |-> 0,
            discrepancies |-> <<>>]
      [] out.kind = "parse_error" ->
           [exc |-> NoExc, score |-> NEUTRAL, discrepancies |-> <<"Parse error">>]
      [] OTHER ->
           [exc |-> NoExc, score |-> out.score, discrepancies |-> <<>>]

\* mutant: no sample counts as proven inconsistency
NoSamplesResult_zero ==
    [exc |-> NoExc, consistency_score |-> 0, num_samples |-> 0,
     discrepancies |-> <<"Failed to generate comparison samples">>,
     judge_calls |-> 0]

\* the result when no sample could be generated
NoSamplesResult ==
    [exc |-> NoExc, consistency_score |-> NEUTRAL, num_samples |-> 0,
     discrepancies |-> <<"Failed to generate comparison samples">>,
     judge_calls |-> 0]

\* The comparison loop over the obtained samples: pairs[i] is what the judge
\* answers for the i-th obtained sample; the first raising call ends the loop.
RECURSIVE ComparePairs(_, _)
ComparePairs(pairs, acc) ==
    IF pairs = <<>> THEN acc
    ELSE LET pair_result == _compare_pair(Head(pairs))
             called == [acc EXCEPT !.judge_calls = @ + 1]
         IN  IF pair_result.exc # NoExc
             THEN [called EXCEPT !.exc = pair_result.exc]
             ELSE ComparePairs(Tail(pairs),
                      [called EXCEPT
                          !.pairwise_scores = Append(@, pair_result.score),
                          !.discrepancies = @ \o pair_result.discrepancies])

\* mutant: the first sample that fails ends the sampling loop
Obtained_until_failure(samples) ==
    Cardinality({ i \in DOMAIN samples : \A j \in 1..i : samples[j] })

\* len(alternative_responses): a sample whose generation raised is left out
Obtained(samples) == Cardinality({i \in DOMAIN samples : samples[i]})

\* samples[i] is TRUE when the i-th sample generation succeeded; pairs has one
\* judge outcome per obtained sample
ConsistencyScorer_score(samples, pairs) ==
    LET obtained == Obtained(samples)
        cmp == ComparePairs(pairs,
                   [exc |-> NoExc, pairwise_scores |-> <<>>,
                    discrepancies |-> <<>>, judge_calls |-> 0])
    IN  IF obtained = 0 THEN NoSamplesResult
        ELSE IF cmp.exc # NoExc
        THEN [NoSamplesResult EXCEPT !.exc = cmp.exc, !.discrepancies = <<>>,
                                     !.judge_calls = cmp.judge_calls]
        ELSE [exc |-> NoExc,
              consistency_score |->
                  IF \E i \in 1..Len(cmp.pairwise_scores) : cmp.pairwise_scores[i] = NaN
                  THEN NaN
                  ELSE RoundDiv(SumSeq(cmp.pairwise_scores), Len(cmp.pairwise_scores)),
              num_samples |-> obtained,
              discrepancies |-> cmp.discrepancies,
              judge_calls |-> cmp.judge_calls]

\* ----------------------------------------------------- ConfidenceScorer

\* What the regular expressions and word counts of the scorer see in a
\* response and a query: counts, not text.
\*   query_terms / matched_terms  content words of the query / those found
\*                                in the sources
\*   citation_count, word_count   [Source N] markers and words of the response
\*   signal_count                 matches of HIGH_CONFIDENCE_SIGNALS
\*   hedge_count                  HEDGING_PHRASES present
ResponseProfiles ==
    { [query_terms |-> 2, matched_terms |-> 2, citation_count |-> 2,
       word_count |-> 80, signal_count |-> 5, hedge_count |-> 0],
      [query_terms |-> 2, matched_terms |-> 1, citation_count |-> 0,
       word_count |-> 250, signal_count |-> 0, hedge_count |-> 3] }

_score_source_coverage(profile, source_chunks) ==
    IF source_chunks = <<>> THEN 0
    ELSE IF profile.query_terms = 0 THEN NEUTRAL
    ELSE RoundDiv(profile.matched_terms * SCALE, profile.query_terms)

\* citation_count / max(1, word_count / 100), capped at 1.0
_score_citation_density(profile) ==
    IF profile.word_count = 0 THEN 0
    ELSE Min2(RoundDiv(profile.citation_count * 100 * SCALE,
                       Max2(100, profile.word_count)), SCALE)

_score_specificity(profile) ==
    Min2(RoundDiv(profile.signal_count * SCALE, 5), SCALE)

\* mutant: hedging is rewarded
_score_hedging_penalty_inverted(profile) ==
    SCALE - Min2(RoundDiv(profile.hedge_count * SCALE, 3), SCALE)

_score_hedging_penalty(profile) ==
    Min2(RoundDiv(profile.hedge_count * SCALE, 3), SCALE)

\* citations is the list of relevance scores, one per citation
_score_retrieval_relevance(citations) ==
    IF citations = <<>> THEN 0
    ELSE Clamp01(RoundDiv(SumSeq(citations), Len(citations)))

ConfidenceScorer_score(profile, citations, source_chunks, hallucination_score, consistency_score) ==
    LET source_coverage == _score_source_coverage(profile, source_chunks)
        citation_density == _score_citation_density(profile)
        specificity == _score_specificity(profile)
        hedging == _score_hedging_penalty(profile)
        retrieval_relevance == _score_retrieval_relevance(citations)
        composite100 ==
              20 * source_coverage
            + 15 * citation_density
            + 10 * specificity
            + 15 * (SCALE - hedging)
            + 10 * retrieval_relevance
            + 15 * (SCALE - hallucination_score)
            + 15 * consistency_score
    IN  [confidence_score |->
             IF hallucination_score = NaN \/ consistency_score = NaN THEN NaN
             ELSE RoundDiv(Min2(Max2(composite100, 0), 100 * SCALE), 100),
         source_coverage_score |-> source_coverage,
         citation_density_score |-> citation_density,
         specificity_score |-> specificity,
         hedging_penalty |-> hedging,
         retrieval_relevance_score |-> retrieval_relevance]

\* --------------------------------------------------- EvaluationPipeline

FLAG_HALLUCINATION == "High hallucination score"

FLAG_CONSISTENCY == "Low consistency score"

FLAG_CONFIDENCE == "Low confidence score"

\* mutant: the flag count is looked at before the hard ceiling
_determine_status_flags_first(hallucination_score, consistency_score, confidence_score, flags) ==
    IF Len(flags) >= 3 THEN "FAILED"
    ELSE IF flags # <<>> THEN "FLAGGED"
    ELSE IF Gt(hallucination_score, HARD_FAIL_SCORE) THEN "FAILED"
    ELSE IF /\ Le(hallucination_score, hallucination_threshold)
            /\ Ge(consistency_score, consistency_threshold)
            /\ Ge(confidence_score, min_confidence_score)
         THEN "PASSED"
    ELSE "FLAGGED"

\* mutant: the thresholds are compared strictly
_determine_status_strict(hallucination_score, consistency_score, confidence_score, flags) ==
    IF Gt(hallucination_score, HARD_FAIL_SCORE) THEN "FAILED"
    ELSE IF Len(flags) >= 3 THEN "FAILED"
    ELSE IF flags # <<>> THEN "FLAGGED"
    ELSE IF /\ Lt(hallucination_score, hallucination_threshold)
            /\ Gt(consistency_score, consistency_threshold)
            /\ Gt(confidence_score, min_confidence_score)
         THEN "PASSED"
    ELSE "FLAGGED"

\* mutant: three flags are not yet enough to fail
_determine_status_four_flags(hallucination_score, consistency_score, confidence_score, flags) ==
    IF Gt(hallucination_score, HARD_FAIL_SCORE) THEN "FAILED"
    ELSE IF Len(flags) > 3 THEN "FAILED"
    ELSE IF flags # <<>> THEN "FLAGGED"
    ELSE IF /\ Le(hallucination_score, hallucination_threshold)
            /\ Ge(consistency_score, consistency_threshold)
            /\ Ge(confidence_score, min_confidence_score)
         THEN "PASSED"
    ELSE "FLAGGED"

_determine_status(hallucination_score, consistency_score, confidence_score, flags) ==
    IF Gt(hallucination_score, HARD_FAIL_SCORE) THEN "FAILED"
    ELSE IF Len(flags) >= 3 THEN "FAILED"
    ELSE IF flags # <<>> THEN "FLAGGED"
    ELSE IF /\ Le(hallucination_score, hallucination_threshold)
            /\ Ge(consistency_score, consistency_threshold)
            /\ Ge(confidence_score, min_confidence_score)
         THEN "PASSED"
    ELSE "FLAGGED"

\* pydantic: every score of an EvaluationResult is Field(ge=0.0, le=1.0)
EvaluationResultValid(r) ==
    /\ r.hallucination_score \in 0..SCALE
    /\ r.factual_grounding_score \in 0..SCALE
    /\ r.semantic_consistency_score \in 0..SCALE
    /\ r.confidence_score \in 0..SCALE

\* mutant: a FAILED verdict is raised as HallucinationDetectedError
EvaluateReturn_raising(hallucination_exc, consistency_exc, result, runs) ==
    IF hallucination_exc # NoExc
    THEN [exc |-> hallucination_exc, result |-> None, consistency_ran |-> FALSE]
    ELSE IF consistency_exc # NoExc
    THEN [exc |-> consistency_exc, result |-> None, consistency_ran |-> TRUE]
    ELSE IF ~EvaluationResultValid(result)
    THEN [exc |-> Exc("ValidationError", "EvaluationResult"),
          result |-> None, consistency_ran |-> runs]
    ELSE IF result.status = "FAILED"
    THEN [exc |-> Exc("HallucinationDetectedError", "verdict"),
          result |-> Some(result), consistency_ran |-> runs]
    ELSE [exc |-> NoExc, result |-> Some(result), consistency_ran |-> runs]

\* How evaluate ends: an exception of detect or of the consistency scorer
\* leaves it as it is, the EvaluationResult constructor validates the scores,
\* and the verdict is only data in the result returned.
EvaluateReturn(hallucination_exc, consistency_exc, result, runs) ==
    IF hallucination_exc # NoExc
    THEN [exc |-> hallucination_exc, result |-> None, consistency_ran |-> FALSE]
    ELSE IF consistency_exc # NoExc
    THEN [exc |-> consistency_exc, result |-> None, consistency_ran |-> TRUE]
    ELSE IF ~EvaluationResultValid(result)
    THEN [exc |-> Exc("ValidationError", "EvaluationResult"),
          result |-> None, consistency_ran |-> runs]
    ELSE [exc |-> NoExc, result |-> Some(result), consistency_ran |-> runs]

\* The environment of one evaluate call: what each collaborator answers.
\*   judge, response_entities, source_entities, semantic   for detect
\*   samples, pairs                                       for the consistency scorer
\*   profile                                              for the confidence scorer
EvalInputs(source_chunks, samples_asked) ==
    { [judge |-> j, response_entities |-> re, source_entities |-> se,
       semantic |-> sm, samples |-> sp[1], pairs |-> sp[2], profile |-> pr]
      : j \in JudgeOutcomes,
        re \in {{"8%"}, {"$394.3 billion"}},
        se \in (IF source_chunks = <<>> THEN {{}} ELSE {{"$394.3 billion"}}),
        sm \in SemanticOutcomes(source_chunks),
        sp \in UNION { { <<sa, pa>>
                         : pa \in [1..Cardinality({i \in DOMAIN sa : sa[i]})
                                   -> PairOutcomes] }
                       : sa \in [1..samples_asked -> BOOLEAN] },
        pr \in ResponseProfiles }

\* mutant: a skipped consistency step counts as uncertain
SkippedConsistency_neutral ==
    [exc |-> NoExc, consistency_score |-> NEUTRAL, num_samples |-> 0,
     discrepancies |-> <<>>, judge_calls |-> 0]

\* consistency_score = 1.0 when the consistency scorer is not called
SkippedConsistency ==
    [exc |-> NoExc, consistency_score |-> SCALE, num_samples |-> 0,
     discrepancies |-> <<"Failed to generate comparison samples">>,
     judge_calls |-> 0]

\* Stages 1 to 3 of EvaluationPipeline.evaluate: the three results and the flag
\* list as they stand when the verdict is determined (if no stage raised).
\* messages is the prompt history (empty when absent).
EvaluateStages(inp, citations, source_chunks, messages, run_consistency) ==
    LET hallucination == detect(inp.judge, inp.response_entities,
                                inp.source_entities, source_chunks, inp.semantic)
        flags1 == IF Gt(hallucination.hallucination_score, hallucination_threshold)
                  THEN <<FLAG_HALLUCINATION>> ELSE <<>>
        runs == run_consistency /\ messages # <<>>
        consistency == IF runs THEN ConsistencyScorer_score(inp.samples, inp.pairs)
                       ELSE SkippedConsistency
        consistency_score == consistency.consistency_score
        flags2 == IF runs /\ Lt(consistency_score, consistency_threshold)
                  THEN Append(flags1, FLAG_CONSISTENCY) ELSE flags1
        confidence == ConfidenceScorer_score(inp.profile, citations, source_chunks,
                          hallucination.hallucination_score, consistency_score)
        flags == IF Lt(confidence.confidence_score, min_confidence_score)
                 THEN Append(flags2, FLAG_CONFIDENCE) ELSE flags2
    IN  [hallucination |-> hallucination, runs |-> runs,
         consistency |-> consistency, consistency_score |-> consistency_score,
         confidence |-> confidence, flags |-> flags]

\* EvaluationPipeline.evaluate: [exc, result (an EvaluationResult when exc is
\* NoExc), consistency_ran]
evaluate(inp, citations, source_chunks, messages, run_consistency) ==
    LET hallucination == detect(inp.judge, inp.response_entities,
                                inp.source_entities, source_chunks, inp.semantic)
        flags1 == IF Gt(hallucination.hallucination_score, hallucination_threshold)
                  THEN <<FLAG_HALLUCINATION>> ELSE <<>>
        runs == run_consistency /\ messages # <<>>
        consistency == IF runs THEN ConsistencyScorer_score(inp.samples, inp.pairs)
                       ELSE SkippedConsistency
        consistency_score == consistency.consistency_score
        flags2 == IF runs /\ Lt(consistency_score, consistency_threshold)
                  THEN Append(flags1, FLAG_CONSISTENCY) ELSE flags1
        confidence == ConfidenceScorer_score(inp.profile, citations, source_chunks,
                          hallucination.hallucination_score, consistency_score)
        flags == IF Lt(confidence.confidence_score, min_confidence_score)
                 THEN Append(flags2, FLAG_CONFIDENCE) ELSE flags2
        status == _determine_status(hallucination.hallucination_score,
                      consistency_score, confidence.confidence_score, flags)
        result == [hallucination_score |-> hallucination.hallucination_score,
                   factual_grounding_score |-> hallucination.factual_grounding_score,
                   semantic_consistency_score |-> consistency_score,
                   confidence_score |-> confidence.confidence_score,
                   status |-> status,
                   flags |-> flags]
    IN  EvaluateReturn(hallucination.exc, consistency.exc, result, runs)

\* ------------------------------------------------------------ guardrails

\* A response text, by what the guardrails can see in it:
\*   body        which completion it is
\*   pii         PII entities in it
\*   advice      it matches INVESTMENT_ADVICE_PATTERNS
\*   fls         it matches FORWARD_LOOKING_PATTERNS
\*   redactions  redaction markers put in by the PII redactor
\*   removed     advice replaced by the CONTENT REMOVED marker
\*   disclaimer  FLS_DISCLAIMER appended
Text(body, pii, advice, fls) ==
    [body |-> body, pii |-> pii, advice |-> advice, fls |-> fls,
     redactions |-> 0, removed |-> FALSE, disclaimer |-> FALSE]

\* the texts the language model can answer with
GeneratedTexts ==
    { Text(b, f[1], f[2], f[3])
      : b \in 1..NumTexts,
        f \in {<<0, FALSE, FALSE>>, <<1, TRUE, FALSE>>, <<0, FALSE, TRUE>>} }

EmptyText == Text(0, 0, FALSE, FALSE)

\* PIIRedactor.redact (detection enabled)
redact(text) ==
    IF text.pii = 0
    THEN [redacted_text |-> text, was_redacted |-> FALSE, entity_count |-> 0]
    ELSE [redacted_text |-> [text EXCEPT !.pii = 0, !.redactions = @ + text.pii],
          was_redacted |-> TRUE, entity_count |-> text.pii]

\* ContentFilter.filter (filter enabled)
filter(text) ==
    LET removed == IF text.advice
                   THEN [text EXCEPT !.advice = FALSE, !.removed = TRUE] ELSE text
        filtered_text == IF text.fls
                         THEN [removed EXCEPT !.disclaimer = TRUE] ELSE removed
    IN  [passed |-> ~text.advice,
         filtered_text |-> filtered_text,
         warnings |->
             (IF text.advice
              THEN <<"Investment advice content was removed from the response.">>
              ELSE <<>>)
             \o (IF text.fls
                 THEN <<"Forward-looking statement disclaimer added.">>
                 ELSE <<>>)]

\* ---------------------------------------- EmbeddingService and LLMClient

\* the texts handed to the embedding service
Texts == {"revenue", "net income"}

\* the argument lists of embed_texts: empty, one text, two texts in either
\* order, one text twice
TextLists ==
    { <<>>, <<"revenue">>, <<"net income">>, <<"revenue", "net income">>,
      <<"net income", "revenue">>, <<"revenue", "revenue">> }

\* sha256(text).hexdigest()[:16]: a 64-bit digest, taken as free of collisions
\* on the texts at hand
_cache_key(text) == <<"sha256", text>>

\* the vector the embedding model gives for a text
Embedding(text) == <<"embedding", text>>

\* tenacity stop_after_attempt(limit): no further attempt after the limit-th
stop_after_attempt_late(limit, attempt_number) == attempt_number >= limit + 1

stop_after_attempt(limit, attempt_number) == attempt_number >= limit

\* the cache check loop of embed_texts over texts[i..]: the hits go to
\* results, the misses to uncached_indices
RECURSIVE CacheLookup(_, _, _, _)
CacheLookup(cache, texts, i, acc) ==
    IF i > Len(texts) THEN acc
    ELSE LET cache_key == _cache_key(texts[i])
         IN  CacheLookup(cache, texts, i + 1,
                 IF cache_key \in DOMAIN cache
                 THEN [acc EXCEPT !.results = (i :> cache[cache_key]) @@ @]
                 ELSE [acc EXCEPT !.uncached_indices = Append(@, i)])

\* uncached_texts, in the order of uncached_indices
UncachedTexts(texts, uncached_indices) ==
    [k \in 1..Len(uncached_indices) |-> texts[uncached_indices[k]]]

\* mutant: the k-th new embedding is stored under the key of the k-th text
RECURSIVE StoreCache_by_position(_, _, _, _, _)
StoreCache_by_position(cache, texts, uncached_indices, embeddings, k) ==
    IF k > Len(uncached_indices) \/ k > Len(embeddings) THEN cache
    ELSE StoreCache_by_position(
             (_cache_key(texts[k]) :> embeddings[k]) @@ cache,
             texts, uncached_indices, embeddings, k + 1)

\* the loop over zip(uncached_indices, embeddings), from its k-th pair:
\* self._cache[cache_key(texts[idx])] = embedding
RECURSIVE StoreCache(_, _, _, _, _)
StoreCache(cache, texts, uncached_indices, embeddings, k) ==
    IF k > Len(uncached_indices) \/ k > Len(embeddings) THEN cache
    ELSE StoreCache(
             (_cache_key(texts[uncached_indices[k]]) :> embeddings[k]) @@ cache,
             texts, uncached_indices, embeddings, k + 1)

\* the same loop: results[idx] = embedding
RECURSIVE StoreResults(_, _, _, _)
StoreResults(results, uncached_indices, embeddings, k) ==
    IF k > Len(uncached_indices) \/ k > Len(embeddings) THEN results
    ELSE StoreResults((uncached_indices[k] :> embeddings[k]) @@ results,
                      uncached_indices, embeddings, k + 1)

\* [results[i] for i in range(len(texts))]
ResultList(results, texts) == [i \in 1..Len(texts) |-> results[i]]

\* texts[batch_start : batch_start + MAX_BATCH_SIZE], batch_start counted from 0
Batch(texts, batch_start) ==
    SubSeq(texts, batch_start + 1, Min2(batch_start + MAX_BATCH_SIZE, Len(texts)))

\* what embeddings.create answers for a batch: one embedding per input, in
\* index order, or an exception
EmbeddingReplies(batch) ==
    { [kind |-> "error", embeddings |-> <<>>],
      [kind |-> "ok", embeddings |-> [k \in 1..Len(batch) |-> Embedding(batch[k])]] }

\* what chat.completions.create answers: a completion (its content may be
\* null), a response without choices, or an exception
CompletionReplies ==
    { [kind |-> "error", content |-> None],
      [kind |-> "no_choices", content |-> None],
      [kind |-> "ok", content |-> None],
      [kind |-> "ok", content |-> Some("Revenue grew 8%.")] }

\* the prompts handed to generate
MessageLists == { <<"user">>, <<"system", "user">> }

\* ------------------------------------------------------ HybridRetriever

\* chunk ids; a smaller number is the smaller chunk identity
ChunkIds == {1, 2, 3}

\* hybrid_search_alpha in tenths: 0.5, the default 0.7, and 1.0
Alphas == {5, 7, 10}

\* (k + 1) * ... * (k + n): a common denominator of the terms 1 / (k + rank + 1)
RECURSIVE RrfDenominator(_)
RrfDenominator(n) == IF n = 0 THEN 1 ELSE (RRF_K + n) * RrfDenominator(n - 1)

\* sum of weight / (k + rank + 1) over the places of chunk_id in results, as a
\* multiple of 1 / den; ranks count from 0, places from 1
RECURSIVE RankTerms(_, _, _, _, _)
RankTerms(results, chunk_id, weight, den, i) ==
    IF i > Len(results) THEN 0
    ELSE (IF results[i] = chunk_id THEN weight * (den \div (RRF_K + i)) ELSE 0)
         + RankTerms(results, chunk_id, weight, den, i + 1)

\* scores[chunk_id] after both scoring loops, as a multiple of 1 / (10 * den)
FusedScore(chunk_id, semantic, keyword, alpha, den) ==
    RankTerms(semantic, chunk_id, alpha, den, 1)
    + RankTerms(keyword, chunk_id, 10 - alpha, den, 1)

\* the keys of the scores dict in insertion order: each chunk id where it
\* first appears in semantic followed by keyword
RECURSIVE InsertionOrder(_, _)
InsertionOrder(results, seen) ==
    IF results = <<>> THEN seen
    ELSE InsertionOrder(Tail(results),
             IF \E j \in 1..Len(seen) : seen[j] = Head(results)
             THEN seen ELSE Append(seen, Head(results)))

\* mutant: an id goes before the ids of equal score already placed
RECURSIVE InsertDescending_unstable(_, _, _)
InsertDescending_unstable(sorted, x, score) ==
    IF sorted = <<>> THEN <<x>>
    ELSE IF score[Head(sorted)] > score[x]
    THEN <<Head(sorted)>> \o InsertDescending_unstable(Tail(sorted), x, score)
    ELSE <<x>> \o sorted

\* one step of sorted(..., reverse=True), which is stable: x goes after every
\* id placed before it whose score is not smaller
RECURSIVE InsertDescending(_, _, _)
InsertDescending(sorted, x, score) ==
    IF sorted = <<>> THEN <<x>>
    ELSE IF score[Head(sorted)] >= score[x]
    THEN <<Head(sorted)>> \o InsertDescending(Tail(sorted), x, score)
    ELSE <<x>> \o sorted

\* sorted(scores.keys(), key=lambda x: scores[x], reverse=True)
RECURSIVE SortedIds(_, _, _)
SortedIds(ids, score, sorted) ==
    IF ids = <<>> THEN sorted
    ELSE SortedIds(Tail(ids), score, InsertDescending(sorted, Head(ids), score))

\* the fused results: chunk ids with their rrf_score, best first
_reciprocal_rank_fusion(semantic, keyword, alpha) ==
    LET den == RrfDenominator(Max2(Len(semantic), Len(keyword)))
        ids == InsertionOrder(semantic \o keyword, <<>>)
        scores == [id \in ChunkIds |-> FusedScore(id, semantic, keyword, alpha, den)]
        sorted_ids == SortedIds(ids, scores, <<>>)
    IN  [i \in 1..Len(sorted_ids) |->
            [chunk_id |-> sorted_ids[i], rrf_score |-> scores[sorted_ids[i]]]]

\* the places where chunk_id first appears in results (0: nowhere)
FirstPlace(results, chunk_id) ==
    IF \E i \in 1..Len(results) : results[i] = chunk_id
    THEN CHOOSE i \in 1..Len(results) :
             /\ results[i] = chunk_id
             /\ \A j \in 1..(i - 1) : results[j] # chunk_id
    ELSE 0

\* ------------------------------------------------------- workflow state

VARIABLES
    pc,               \* where execute is: idle, the node about to run, END,
                      \* returned, raised, replied
    state,            \* the WorkflowState of the request
    response,         \* the QueryResponse execute returned (None: none)
    error,            \* the exception execute let out (NoExc: none)
    ACTIVE_REQUESTS,  \* the gauge
    calls,            \* how often each collaborator was invoked for the request
    last_generated,   \* what the last LLMClient.generate of _generate_node returned
    last_evaluation,  \* the last call of EvaluationPipeline.evaluate and its result
    http,             \* what the route handler answered (None: not yet)
    call,             \* a pure function applied on its own: its arguments
    ret,              \* ... and its result (None: not applied yet)
    _cache,           \* EmbeddingService._cache: cache key -> embedding
    tasks,            \* the embed_texts coroutines running on the service
    llm,              \* one call of LLMClient.generate
    requests          \* the execute coroutines running on one orchestrator

\* the provider clients' state: the embedding service and the LLM client
svcvars == <<_cache, tasks, llm, requests>>

vars == <<pc, state, response, error, ACTIVE_REQUESTS, calls, last_generated,
          last_evaluation, http, call, ret, svcvars>>

wfvars == <<pc, state, response, error, ACTIVE_REQUESTS, calls, last_generated,
            last_evaluation, http>>

\* WorkflowState(...) as execute constructs it
WorkflowState(include_evaluation) ==
    [include_evaluation |-> include_evaluation,
     chunk_texts |-> <<>>,
     citations |-> <<>>,
     messages |-> <<>>,
     response_text |-> EmptyText,
     evaluation |-> None,
     generation_attempts |-> 0,
     pii_entities_found |-> 0,
     content_filter_passed |-> TRUE,
     warnings |-> <<>>]

NoCalls ==
    [retrieve |-> 0, generate |-> 0, evaluate |-> 0, consistency |-> 0,
     guardrails |-> 0, assemble |-> 0, regenerate |-> 0]

IdleWorkflow ==
    /\ pc = "idle"
    /\ state = WorkflowState(TRUE)
    /\ response = None
    /\ error = [stage |-> "", exc |-> NoExc]
    /\ ACTIVE_REQUESTS = 0
    /\ calls = NoCalls
    /\ last_generated = None
    /\ last_evaluation = None
    /\ http = None

\* a dict: a function on the keys it holds
EmptyDict == [k \in {} |-> None]

\* an embed_texts coroutine that was not called yet
IdleTask ==
    [pc |-> "idle", texts |-> <<>>, attempt_number |-> 0,
     uncached_indices |-> <<>>, results |-> EmptyDict,
     batch_start |-> 0, all_embeddings |-> <<>>,
     provider_calls |-> 0, ret |-> None, exc |-> NoExc]

\* a generate call that was not made yet
IdleLLM ==
    [pc |-> "idle", messages |-> <<>>, attempt_number |-> 0,
     provider_calls |-> 0, ret |-> None, exc |-> NoExc]

\* an execute call that was not made yet
IdleRequest ==
    [pc |-> "idle", include_evaluation |-> TRUE, generation_attempts |-> 0]

\* EmbeddingService(), LLMClient() and the orchestrator as constructed, nothing
\* called
IdleServices ==
    /\ _cache = EmptyDict
    /\ tasks = [c \in 1..NumCalls |-> IdleTask]
    /\ llm = IdleLLM
    /\ requests = [r \in 1..NumRequests |-> IdleRequest]

Init ==
    /\ IdleWorkflow
    /\ IdleServices
    /\ call = None
    /\ ret = None

\* ------------------------------------------------------ QueryOrchestrator

\* mutant: the request's choice is ignored
_should_evaluate_always(st) == "evaluate"

_should_evaluate(st) ==
    IF st.include_evaluation THEN "evaluate" ELSE "skip_eval"

\* mutant: off by one in the attempt bound
_should_regenerate_le(st) ==
    IF /\ st.evaluation # None
       /\ st.evaluation[1].hallucination_score > REGENERATE_SCORE
       /\ st.generation_attempts <= MAX_REGENERATION_ATTEMPTS
    THEN "regenerate" ELSE "continue"

\* mutant: the attempt bound is forgotten
_should_regenerate_unbounded(st) ==
    IF /\ st.evaluation # None
       /\ st.evaluation[1].hallucination_score > REGENERATE_SCORE
    THEN "regenerate" ELSE "continue"

\* mutant: a score of exactly 0.8 regenerates
_should_regenerate_ge(st) ==
    IF /\ st.evaluation # None
       /\ st.evaluation[1].hallucination_score >= REGENERATE_SCORE
       /\ st.generation_attempts < MAX_REGENERATION_ATTEMPTS
    THEN "regenerate" ELSE "continue"

_should_regenerate(st) ==
    IF /\ st.evaluation # None
       /\ st.evaluation[1].hallucination_score > REGENERATE_SCORE
       /\ st.generation_attempts < MAX_REGENERATION_ATTEMPTS
    THEN "regenerate" ELSE "continue"

\* add_conditional_edges("generate", ...): label -> node
GenerateEdges(label) == IF label = "evaluate" THEN "evaluate" ELSE "guardrails"

\* mutant: the regenerate edge leads back to retrieval
EvaluateEdges_reretrieve(label) ==
    IF label = "regenerate" THEN "retrieve" ELSE "guardrails"

\* mutant: the continue edge leads past the guardrails
EvaluateEdges_skip_guardrails(label) ==
    IF label = "regenerate" THEN "generate" ELSE "assemble"

\* add_conditional_edges("evaluate", ...): label -> node
EvaluateEdges(label) == IF label = "regenerate" THEN "generate" ELSE "guardrails"

\* the QueryResponse execute builds from the final state
QueryResponse(final_state) ==
    [response |-> final_state.response_text,
     citations |-> final_state.citations,
     evaluation |-> final_state.evaluation]

\* mutant: an except clause answers with what the state holds
ExecuteRaise_partial(stage, exc) ==
    /\ pc' = "raised"
    /\ error' = [stage |-> stage, exc |-> exc]
    /\ response' = Some(QueryResponse(state))
    /\ ACTIVE_REQUESTS' = ACTIVE_REQUESTS - 1

\* An exception leaves ainvoke: execute has no except clause, its finally
\* decrements the gauge and the exception reaches the caller.
ExecuteRaise(stage, exc) ==
    /\ pc' = "raised"
    /\ error' = [stage |-> stage, exc |-> exc]
    /\ response' = None
    /\ ACTIVE_REQUESTS' = ACTIVE_REQUESTS - 1

\* execute, up to the call of ainvoke
Execute ==
    /\ pc = "idle"
    /\ \E include_evaluation \in BOOLEAN :
           state' = WorkflowState(include_evaluation)
    /\ ACTIVE_REQUESTS' = ACTIVE_REQUESTS + 1
    /\ pc' = "retrieve"
    /\ UNCHANGED <<response, error, calls, last_generated, last_evaluation,
                   http, call, ret, svcvars>>

\* the fused relevance of the chunk ranked i by both searches: 1 / (60 + i)
RrfScore(i) == RoundDiv(SCALE, 60 + i)

\* what HybridRetriever.retrieve can come back with: n chunks, or an
\* exception (EmbeddingError from embed_query, a vector store failure)
_retrieve_node ==
    /\ pc = "retrieve"
    /\ calls' = [calls EXCEPT !.retrieve = @ + 1]
    /\ \/ /\ \E n \in 0..MaxChunks :
                 state' = [state EXCEPT !.chunk_texts = [i \in 1..n |-> i],
                                        !.citations = [i \in 1..n |-> RrfScore(i)]]
          /\ pc' = "generate"
          /\ UNCHANGED <<response, error, ACTIVE_REQUESTS>>
       \/ /\ ExecuteRaise("retrieve", Exc("EmbeddingError", "embed_query"))
          /\ UNCHANGED state
    /\ UNCHANGED <<last_generated, last_evaluation, http, call, ret, svcvars>>

\* build_rag_prompt: a system and a user message
build_rag_prompt(st) == <<"system", "user">>

_generate_node ==
    /\ pc = "generate"
    /\ calls' = [calls EXCEPT !.generate = @ + 1]
    /\ LET started == [state EXCEPT !.generation_attempts = @ + 1,
                                    !.messages = build_rag_prompt(state)]
       IN  \/ \E response_text \in GeneratedTexts :
                 /\ state' = [started EXCEPT !.response_text = response_text]
                 /\ last_generated' = Some(response_text)
                 /\ pc' = GenerateEdges(_should_evaluate(started))
                 /\ UNCHANGED <<response, error, ACTIVE_REQUESTS>>
           \/ /\ state' = started
              /\ ExecuteRaise("generate", Exc("LLMError", "generate"))
              /\ UNCHANGED last_generated
    /\ UNCHANGED <<last_evaluation, http, call, ret, svcvars>>

\* mutant: the consistency sub-step is asked for on every attempt
RunConsistency_always(st) == st.generation_attempts >= 1

\* run_consistency=(state.generation_attempts == 1)
RunConsistency(st) == st.generation_attempts = 1

_evaluate_node ==
    /\ pc = "evaluate"
    /\ LET run_consistency == RunConsistency(state)
           samples_asked == IF run_consistency /\ state.messages # <<>>
                            THEN DEFAULT_NUM_SAMPLES ELSE 0
       IN  \E inp \in EvalInputs(state.chunk_texts, samples_asked) :
             LET ev == evaluate(inp, state.citations, state.chunk_texts,
                                state.messages, run_consistency)
                 evaluated == [state EXCEPT !.evaluation = ev.result]
                 edge == _should_regenerate(evaluated)
             IN  /\ calls' = [calls EXCEPT
                                 !.evaluate = @ + 1,
                                 !.consistency = @ + (IF ev.consistency_ran THEN 1 ELSE 0),
                                 !.regenerate = @ + (IF ev.exc = NoExc /\ edge = "regenerate"
                                                     THEN 1 ELSE 0)]
                 /\ last_evaluation' =
                        Some([response_text |-> state.response_text,
                              run_consistency |-> run_consistency,
                              result |-> ev.result])
                 /\ IF ev.exc = NoExc
                    THEN /\ state' = evaluated
                         /\ pc' = EvaluateEdges(edge)
                         /\ UNCHANGED <<response, error, ACTIVE_REQUESTS>>
                    ELSE /\ ExecuteRaise("evaluate", ev.exc)
                         /\ UNCHANGED state
    /\ UNCHANGED <<last_generated, http, call, ret, svcvars>>

\* mutant: a blocking content violation rewrites the verdict
_guardrails_node_verdict ==
    /\ pc = "guardrails"
    /\ calls' = [calls EXCEPT !.guardrails = @ + 1]
    /\ LET pii_result == redact(state.response_text)
           after_pii == IF pii_result.was_redacted
                        THEN [state EXCEPT
                                 !.response_text = pii_result.redacted_text,
                                 !.pii_entities_found = pii_result.entity_count]
                        ELSE state
           filter_result == filter(after_pii.response_text)
       IN  state' = [after_pii EXCEPT
                        !.content_filter_passed = filter_result.passed,
                        !.response_text = filter_result.filtered_text,
                        !.warnings = @ \o filter_result.warnings,
                        !.evaluation =
                            IF @ # None /\ ~filter_result.passed
                            THEN Some([@[1] EXCEPT !.status = "FAILED"]) ELSE @]
    /\ pc' = "assemble"
    /\ UNCHANGED <<response, error, ACTIVE_REQUESTS, last_generated,
                   last_evaluation, http, call, ret, svcvars>>

_guardrails_node ==
    /\ pc = "guardrails"
    /\ calls' = [calls EXCEPT !.guardrails = @ + 1]
    /\ LET pii_result == redact(state.response_text)
           after_pii == IF pii_result.was_redacted
                        THEN [state EXCEPT
                                 !.response_text = pii_result.redacted_text,
                                 !.pii_entities_found = pii_result.entity_count]
                        ELSE state
           filter_result == filter(after_pii.response_text)
       IN  state' = [after_pii EXCEPT
                        !.content_filter_passed = filter_result.passed,
                        !.response_text = filter_result.filtered_text,
                        !.warnings = @ \o filter_result.warnings]
    /\ pc' = "assemble"
    /\ UNCHANGED <<response, error, ACTIVE_REQUESTS, last_generated,
                   last_evaluation, http, call, ret, svcvars>>

_assemble_node ==
    /\ pc = "assemble"
    /\ calls' = [calls EXCEPT !.assemble = @ + 1]
    /\ pc' = "END"
    /\ UNCHANGED <<state, response, error, ACTIVE_REQUESTS, last_generated,
                   last_evaluation, http, call, ret, svcvars>>

\* execute, after ainvoke returned the final state
ExecuteReturn ==
    /\ pc = "END"
    /\ response' = Some(QueryResponse(state))
    /\ ACTIVE_REQUESTS' = ACTIVE_REQUESTS - 1
    /\ pc' = "returned"
    /\ UNCHANGED <<state, error, calls, last_generated, last_evaluation,
                   http, call, ret, svcvars>>

\* the route handler: the response, or HTTP 500 for any exception
query_financial_insights ==
    /\ pc \in {"returned", "raised"}
    /\ http' = IF pc = "returned"
               THEN Some([status |-> 200, body |-> response])
               ELSE Some([status |-> 500, body |-> None])
    /\ pc' = "replied"
    /\ UNCHANGED <<state, response, error, ACTIVE_REQUESTS, calls,
                   last_generated, last_evaluation, call, ret, svcvars>>

Next ==
    \/ Execute
    \/ _retrieve_node
    \/ _generate_node
    \/ _evaluate_node
    \/ _guardrails_node
    \/ _assemble_node
    \/ ExecuteReturn
    \/ query_financial_insights

Spec == Init /\ [][Next]_vars

\* each awaited step of a request eventually completes: the event loop runs
\* the one coroutine of the request until it returns or raises
FairSpec == Spec /\ WF_vars(Next)

\* ------------------------------------- _determine_status applied on its own

\* scores around the thresholds 0.6, 0.7 and 0.8
VerdictHallucinationScores == {0, 7000, 7001, 8000, 8001, 10000}

VerdictConsistencyScores == {0, 7999, 8000, 10000}

VerdictConfidenceScores == {0, 5999, 6000, 10000}

FlagNames == {FLAG_HALLUCINATION, FLAG_CONSISTENCY, FLAG_CONFIDENCE}

\* any flag list of at most MaxFlags entries
FlagLists == UNION { [1..n -> FlagNames] : n \in 0..MaxFlags }

InitVerdict ==
    /\ IdleWorkflow
    /\ IdleServices
    /\ call \in { Some([fn |-> "_determine_status", hallucination_score |-> h,
                        consistency_score |-> c, confidence_score |-> f,
                        flags |-> fl])
                  : h \in VerdictHallucinationScores,
                    c \in VerdictConsistencyScores,
                    f \in VerdictConfidenceScores,
                    fl \in FlagLists }
    /\ ret = None

DetermineStatus ==
    /\ call # None
    /\ call[1].fn = "_determine_status"
    /\ ret = None
    /\ ret' = Some(_determine_status(call[1].hallucination_score,
                                     call[1].consistency_score,
                                     call[1].confidence_score,
                                     call[1].flags))
    /\ UNCHANGED <<wfvars, call, svcvars>>

NextVerdict == DetermineStatus

SpecVerdict == InitVerdict /\ [][NextVerdict]_vars

\* ------------------------------- ConsistencyScorer.score applied on its own

\* pairwise judge answers, with a low judged score and a non-numeric one
ScorePairOutcomes ==
    PairOutcomes \cup { [kind |-> "value_error", score |-> 0],
                        [kind |-> "ok", score |-> 2000] }

InitConsistency ==
    /\ IdleWorkflow
    /\ IdleServices
    /\ call \in { Some([fn |-> "score", num_samples |-> Len(sa),
                        samples |-> sa, pairs |-> pa])
                  : <<sa, pa>> \in
                      UNION { { <<s1, p1>>
                                : p1 \in [1..Cardinality({i \in DOMAIN s1 : s1[i]})
                                          -> ScorePairOutcomes] }
                              : s1 \in UNION { [1..n -> BOOLEAN]
                                               : n \in 0..MaxSamples } } }
    /\ ret = None

Score ==
    /\ call # None
    /\ call[1].fn = "score"
    /\ ret = None
    /\ ret' = Some(ConsistencyScorer_score(call[1].samples, call[1].pairs))
    /\ UNCHANGED <<wfvars, call, svcvars>>

NextConsistency == Score

SpecConsistency == InitConsistency /\ [][NextConsistency]_vars

\* -------------------------------- the provider clients applied on their own

\* a coroutine calls embed_texts(texts): the first attempt is about to run
embed_texts_call(c) ==
    /\ tasks[c].pc = "idle"
    /\ \E texts \in TextLists :
           tasks' = [tasks EXCEPT ![c] = [IdleTask EXCEPT !.pc = "body",
                                                          !.texts = texts,
                                                          !.attempt_number = 1]]
    /\ UNCHANGED <<wfvars, call, ret, _cache, llm, requests>>

\* embed_texts up to its first suspension: the empty list and a list that is
\* all in the cache return at once, otherwise the first batch is sent
embed_texts(c) ==
    /\ tasks[c].pc = "body"
    /\ LET texts == tasks[c].texts
           looked == CacheLookup(_cache, texts, 1,
                         [results |-> EmptyDict, uncached_indices |-> <<>>])
       IN  tasks' = [tasks EXCEPT ![c] =
               IF texts = <<>>
               THEN [@ EXCEPT !.pc = "returned", !.ret = Some(<<>>)]
               ELSE IF looked.uncached_indices = <<>>
               THEN [@ EXCEPT !.pc = "returned",
                              !.results = looked.results,
                              !.uncached_indices = <<>>,
                              !.ret = Some(ResultList(looked.results, texts))]
               ELSE [@ EXCEPT !.pc = "create",
                              !.results = looked.results,
                              !.uncached_indices = looked.uncached_indices,
                              !.batch_start = 0,
                              !.all_embeddings = <<>>,
                              !.provider_calls = @ + 1]]
    /\ UNCHANGED <<wfvars, call, ret, _cache, llm, requests>>

\* _batch_embed resumes with the provider's answer for the batch in flight:
\* the next batch is sent, or embed_texts stores the new embeddings and
\* returns; an exception becomes EmbeddingError, which ends the attempt
_batch_embed(c) ==
    /\ tasks[c].pc = "create"
    /\ LET t == tasks[c]
           uncached_texts == UncachedTexts(t.texts, t.uncached_indices)
       IN  \E reply \in EmbeddingReplies(Batch(uncached_texts, t.batch_start)) :
             LET all_embeddings == t.all_embeddings \o reply.embeddings
                 next_start == t.batch_start + MAX_BATCH_SIZE
                 results == StoreResults(t.results, t.uncached_indices,
                                         all_embeddings, 1)
             IN  IF reply.kind = "error"
                 THEN /\ tasks' = [tasks EXCEPT ![c] =
                             IF stop_after_attempt(EMBED_STOP_AFTER_ATTEMPT,
                                                   t.attempt_number)
                             THEN [@ EXCEPT !.pc = "raised",
                                            !.exc = Exc("EmbeddingError",
                                                        "embeddings.create")]
                             ELSE [@ EXCEPT !.pc = "wait"]]
                      /\ UNCHANGED _cache
                 ELSE IF next_start < Len(uncached_texts)
                 THEN /\ tasks' = [tasks EXCEPT ![c] =
                             [@ EXCEPT !.batch_start = next_start,
                                       !.all_embeddings = all_embeddings,
                                       !.provider_calls = @ + 1]]
                      /\ UNCHANGED _cache
                 ELSE /\ _cache' = StoreCache(_cache, t.texts, t.uncached_indices,
                                              all_embeddings, 1)
                      /\ tasks' = [tasks EXCEPT ![c] =
                             [@ EXCEPT !.pc = "returned",
                                       !.all_embeddings = all_embeddings,
                                       !.results = results,
                                       !.ret = Some(ResultList(results, t.texts))]]
    /\ UNCHANGED <<wfvars, call, ret, llm, requests>>

\* tenacity's wait is over: the next attempt runs embed_texts again
embed_texts_retry(c) ==
    /\ tasks[c].pc = "wait"
    /\ tasks' = [tasks EXCEPT ![c] = [@ EXCEPT !.pc = "body",
                                               !.attempt_number = @ + 1]]
    /\ UNCHANGED <<wfvars, call, ret, _cache, llm, requests>>

\* generate(messages) up to its suspension at chat.completions.create
generate ==
    /\ llm.pc = "idle"
    /\ \E messages \in MessageLists :
           llm' = [IdleLLM EXCEPT !.pc = "create", !.messages = messages,
                                  !.attempt_number = 1, !.provider_calls = 1]
    /\ UNCHANGED <<wfvars, call, ret, _cache, tasks, requests>>

\* generate resumes with the provider's answer: the content (or "") is
\* returned; any exception of the try block becomes LLMError, which ends the
\* attempt
generate_resume ==
    /\ llm.pc = "create"
    /\ \E reply \in CompletionReplies :
           llm' = IF reply.kind = "ok"
                  THEN [llm EXCEPT !.pc = "returned",
                                   !.ret = IF reply.content = None THEN Some("")
                                           ELSE reply.content]
                  ELSE IF stop_after_attempt(LLM_STOP_AFTER_ATTEMPT,
                                             llm.attempt_number)
                  THEN [llm EXCEPT !.pc = "raised",
                                   !.exc = Exc("LLMError", "chat.completions.create")]
                  ELSE [llm EXCEPT !.pc = "wait"]
    /\ UNCHANGED <<wfvars, call, ret, _cache, tasks, requests>>

\* tenacity's wait is over: the next attempt sends the request again
generate_retry ==
    /\ llm.pc = "wait"
    /\ llm' = [llm EXCEPT !.pc = "create", !.attempt_number = @ + 1,
                          !.provider_calls = @ + 1]
    /\ UNCHANGED <<wfvars, call, ret, _cache, tasks, requests>>

\* one generate call and one embed_texts call, each retried on its own
NextRetry ==
    \/ generate
    \/ generate_resume
    \/ generate_retry
    \/ embed_texts_call(1)
    \/ embed_texts(1)
    \/ _batch_embed(1)
    \/ embed_texts_retry(1)

SpecRetry == Init /\ [][NextRetry]_vars

\* the awaited provider call and tenacity's sleep both complete
FairSpecRetry == SpecRetry /\ WF_vars(NextRetry)

\* NumCalls coroutines sharing one EmbeddingService; a step is what one of
\* them runs between two suspensions
NextEmbedding ==
    \E c \in 1..NumCalls :
        \/ embed_texts_call(c)
        \/ embed_texts(c)
        \/ _batch_embed(c)
        \/ embed_texts_retry(c)

SpecEmbedding == Init /\ [][NextEmbedding]_vars

\* ------------------------------ _reciprocal_rank_fusion applied on its own

\* result lists of at most MaxRanked chunk ids
RankedLists == UNION { [1..n -> ChunkIds] : n \in 0..MaxRanked }

\* the semantic search returns a chunk once; the keyword searches of several
\* terms, concatenated, can return a chunk more than once
InitFusion ==
    /\ IdleWorkflow
    /\ IdleServices
    /\ call \in { Some([fn |-> "_reciprocal_rank_fusion", semantic |-> sem,
                        keyword |-> kw, alpha |-> a])
                  : sem \in { r \in RankedLists :
                                \A i, j \in 1..Len(r) : r[i] = r[j] => i = j },
                    kw \in RankedLists,
                    a \in Alphas }
    /\ ret = None

\* the first run of the fusion
Fuse ==
    /\ call # None
    /\ call[1].fn = "_reciprocal_rank_fusion"
    /\ ret = None
    /\ ret' = Some([first |-> _reciprocal_rank_fusion(call[1].semantic,
                                  call[1].keyword, call[1].alpha),
                    second |-> None])
    /\ UNCHANGED <<wfvars, call, svcvars>>

\* a second run on the same lists
FuseAgain ==
    /\ call # None
    /\ call[1].fn = "_reciprocal_rank_fusion"
    /\ ret # None
    /\ ret[1].second = None
    /\ ret' = Some([ret[1] EXCEPT !.second =
                       Some(_reciprocal_rank_fusion(call[1].semantic,
                                call[1].keyword, call[1].alpha))])
    /\ UNCHANGED <<wfvars, call, svcvars>>

NextFusion == Fuse \/ FuseAgain

SpecFusion == InitFusion /\ [][NextFusion]_vars

\* --------------------------------- ConfidenceScorer.score applied on its own

\* the query against the sources: content words of the query and how many of
\* them the sources hold
QueryProfiles ==
    { [query_terms |-> 0, matched_terms |-> 0],
      [query_terms |-> 2, matched_terms |-> 1],
      [query_terms |-> 2, matched_terms |-> 2] }

\* responses by what the scorer counts in them; a [Source N] marker is also a
\* high-confidence signal, so citation_count <= signal_count
TextProfiles ==
    { [citation_count |-> 0, word_count |-> 0, signal_count |-> 0, hedge_count |-> 0] }
    \cup
    { [citation_count |-> sc[2], word_count |-> sc[3], signal_count |-> sc[1],
       hedge_count |-> hc]
      : sc \in {<<0, 0, 250>>, <<3, 0, 80>>, <<7, 4, 250>>},
        hc \in {0, 1, 3, 4} }

\* hallucination_score and consistency_score as handed in: in range, out of
\* range, and NaN
FactorValues == {-20000, 0, 10000, 40000, NaN}

\* relevance scores of the citations, also out of [0,1]
RelevanceLists == { <<>>, <<164>>, <<-5000, 164>>, <<20000>> }

InitConfidence ==
    /\ IdleWorkflow
    /\ IdleServices
    /\ call \in { Some([fn |-> "ConfidenceScorer.score", query |-> q,
                        response_a |-> ra, response_b |-> rb,
                        citations |-> ci, source_chunks |-> sc,
                        hallucination_score |-> h, consistency_score |-> c])
                  : q \in QueryProfiles, ra \in TextProfiles, rb \in TextProfiles,
                    ci \in RelevanceLists,
                    sc \in {[i \in 1..n |-> i] : n \in 0..1},
                    h \in FactorValues, c \in FactorValues }
    /\ ret = None

\* score applied to two responses, everything else the same
ScoreConfidence ==
    /\ call # None
    /\ call[1].fn = "ConfidenceScorer.score"
    /\ ret = None
    /\ LET scored(r) ==
               ConfidenceScorer_score(
                   [query_terms |-> call[1].query.query_terms,
                    matched_terms |-> call[1].query.matched_terms,
                    citation_count |-> r.citation_count,
                    word_count |-> r.word_count,
                    signal_count |-> r.signal_count,
                    hedge_count |-> r.hedge_count],
                   call[1].citations, call[1].source_chunks,
                   call[1].hallucination_score, call[1].consistency_score)
       IN  ret' = Some([a |-> scored(call[1].response_a),
                        b |-> scored(call[1].response_b)])
    /\ UNCHANGED <<wfvars, call, svcvars>>

NextConfidence == ScoreConfidence

SpecConfidence == InitConfidence /\ [][NextConfidence]_vars

\* ----------------------------- HallucinationDetector.detect applied on its own

\* judge replies whose two scores are unrelated: in range, out of range, NaN
DetectJudgeOutcomes ==
    JudgeOutcomes
    \cup { [kind |-> "ok", hallucination_score |-> h,
            factual_grounding_score |-> g, claims |-> 1]
           : h \in {-5000, 3000, 20000, NaN}, g \in {-5000, 3000, 20000, NaN} }

InitDetect ==
    /\ IdleWorkflow
    /\ IdleServices
    /\ call \in { Some([fn |-> "detect", judge |-> j, response_entities |-> re,
                        source_entities |-> se, source_chunks |-> sc[1],
                        semantic |-> sc[2]])
                  : j \in DetectJudgeOutcomes,
                    re \in SUBSET Entities,
                    se \in {{}, {"$394.3 billion"}},
                    sc \in UNION { { <<ch, sm>> : sm \in SemanticOutcomes(ch) }
                                   : ch \in {[i \in 1..n |-> i] : n \in 0..MaxChunks} } }
    /\ ret = None

Detect ==
    /\ call # None
    /\ call[1].fn = "detect"
    /\ ret = None
    /\ ret' = Some(detect(call[1].judge, call[1].response_entities,
                          call[1].source_entities, call[1].source_chunks,
                          call[1].semantic))
    /\ UNCHANGED <<wfvars, call, svcvars>>

NextDetect == Detect

SpecDetect == InitDetect /\ [][NextDetect]_vars

\* ------------------ HallucinationDetector._entity_overlap_check applied on texts

\* A text is a sequence of words; " ".join(source_chunks) puts the chunks one
\* after the other with a blank between them.
DollarAmounts == {"$500", "$999"}

Percentages == {"8%", "3%"}

\* what the tail \s*[BMKbmk]?(?:illion|illion)? of the dollar pattern takes
\* from the word after the amount, after strip().lower()
DollarTail(word) ==
    CASE word = "billion" -> " billion"
      [] word = "Management" -> " m"
      [] OTHER -> ""

_extract_financial_entities(text) ==
    { <<text[i], IF i < Len(text) THEN DollarTail(text[i + 1]) ELSE "">>
      : i \in { j \in 1..Len(text) : text[j] \in DollarAmounts } }
    \cup { <<text[i], "">> : i \in { j \in 1..Len(text) : text[j] \in Percentages } }

RECURSIVE JoinChunks(_)
JoinChunks(source_chunks) ==
    IF source_chunks = <<>> THEN <<>>
    ELSE Head(source_chunks) \o JoinChunks(Tail(source_chunks))

\* _entity_overlap_check(response_text, source_chunks) of the source
entity_overlap(response_text, source_chunks) ==
    _entity_overlap_check(_extract_financial_entities(response_text),
                          _extract_financial_entities(JoinChunks(source_chunks)))

SourceTexts ==
    { <<"Revenue", "$500", "billion">>, <<"Revenue", "$500">>,
      <<"Management", "grew", "8%">>, <<"Margin", "grew">> }

\* responses none of whose amounts and percentages is in a source text
AbsentTexts ==
    { <<"Revenue", "$999">>, <<"Margin", "grew", "3%">>, <<"Profit", "rose">> }

SourceSets ==
    UNION { [1..n -> SourceTexts] : n \in 1..MaxSources }

InitEntity ==
    /\ IdleWorkflow
    /\ IdleServices
    /\ call \in { Some([fn |-> "_entity_overlap_check", source_chunks |-> sc,
                        verbatim |-> v, absent |-> a])
                  : sc \in SourceSets,
                    v \in SourceTexts,
                    a \in AbsentTexts }
    /\ \E i \in 1..Len(call[1].source_chunks) :
           call[1].verbatim = call[1].source_chunks[i]
    /\ ret = None

EntityOverlap ==
    /\ call # None
    /\ call[1].fn = "_entity_overlap_check"
    /\ ret = None
    /\ ret' = Some([verbatim |-> entity_overlap(call[1].verbatim, call[1].source_chunks),
                    absent |-> entity_overlap(call[1].absent, call[1].source_chunks)])
    /\ UNCHANGED <<wfvars, call, svcvars>>

NextEntity == EntityOverlap

SpecEntity == InitEntity /\ [][NextEntity]_vars

\* ------------------------------ EvaluationPipeline.evaluate applied on its own

\* judge replies for one evaluate call: unreadable, failing, and readable with
\* a score in range, at 0.75, and NaN
EvaluateJudgeOutcomes ==
    { [kind |-> k, hallucination_score |-> 0, factual_grounding_score |-> 0,
       claims |-> 0] : k \in {"llm_error", "parse_error"} }
    \cup { [kind |-> "ok", hallucination_score |-> h,
            factual_grounding_score |-> IF h = NaN THEN NaN ELSE SCALE - h,
            claims |-> 1] : h \in {0, 7500, 10000, NaN} }

\* pairwise judge replies: unreadable, and readable with a score in range,
\* above 1 and NaN
EvaluatePairOutcomes ==
    { [kind |-> "parse_error", score |-> 0] }
    \cup { [kind |-> "ok", score |-> v] : v \in {2000, 10000, 15000, NaN} }

InitEvaluate ==
    /\ IdleWorkflow
    /\ IdleServices
    /\ call \in { Some([fn |-> "evaluate",
                        inp |-> [judge |-> j, response_entities |-> re,
                                 source_entities |-> {"$394.3 billion"},
                                 semantic |-> sc[2], samples |-> sp[1],
                                 pairs |-> sp[2], profile |-> pr],
                        citations |-> ci, source_chunks |-> sc[1],
                        messages |-> m, run_consistency |-> rc])
                  : j \in EvaluateJudgeOutcomes,
                    re \in {{}, {"8%"}},
                    sc \in UNION { { <<ch, sm>> : sm \in SemanticOutcomes(ch) }
                                   : ch \in {[i \in 1..n |-> i] : n \in 0..MaxChunks} },
                    sp \in UNION { { <<sa, pa>>
                                     : pa \in [1..Cardinality({i \in DOMAIN sa : sa[i]})
                                               -> EvaluatePairOutcomes] }
                                   : sa \in [1..DEFAULT_NUM_SAMPLES -> BOOLEAN] },
                    pr \in ResponseProfiles,
                    ci \in {<<>>, <<SCALE>>},
                    m \in {<<>>, <<"user">>},
                    rc \in BOOLEAN }
    /\ ret = None

\* evaluate runs: ret keeps the stages as the verdict function saw them, the
\* verdict, and what evaluate gives back
Evaluate ==
    /\ call # None
    /\ call[1].fn = "evaluate"
    /\ ret = None
    /\ LET st == EvaluateStages(call[1].inp, call[1].citations,
                                call[1].source_chunks, call[1].messages,
                                call[1].run_consistency)
       IN  ret' = Some([stages |-> st,
                        status |-> _determine_status(
                                       st.hallucination.hallucination_score,
                                       st.consistency_score,
                                       st.confidence.confidence_score, st.flags),
                        returned |-> evaluate(call[1].inp, call[1].citations,
                                         call[1].source_chunks, call[1].messages,
                                         call[1].run_consistency)])
    /\ UNCHANGED <<wfvars, call, svcvars>>

NextEvaluate == Evaluate

SpecEvaluate == InitEvaluate /\ [][NextEvaluate]_vars

\* ------------------------------------- concurrent requests on one orchestrator

\* the nodes of the graph, each awaited inside the try block of execute
Nodes == {"retrieve", "generate", "evaluate", "guardrails", "assemble"}

\* mutant: the gauge is decremented on the successful return only
Finally_on_return_only(gauge, raising) == IF raising THEN gauge ELSE gauge - 1

\* finally: ACTIVE_REQUESTS.dec(), whether execute returns or raises
Finally(gauge, raising) == gauge - 1

\* execute up to its first suspension: the gauge is incremented, the state is
\* built, and ainvoke starts at the entry point
execute_enter(r) ==
    /\ requests[r].pc = "idle"
    /\ ACTIVE_REQUESTS' = ACTIVE_REQUESTS + 1
    /\ \E include_evaluation \in BOOLEAN :
           requests' = [requests EXCEPT ![r] =
                           [pc |-> "retrieve",
                            include_evaluation |-> include_evaluation,
                            generation_attempts |-> 0]]
    /\ UNCHANGED <<pc, state, response, error, calls, last_generated,
                   last_evaluation, http, call, ret, _cache, tasks, llm>>

\* ainvoke resumes for request r and runs its node: the graph goes on to the
\* next node, or the node raises (cancellation included) and the exception
\* leaves execute through its finally
ainvoke(r) ==
    /\ requests[r].pc \in Nodes
    /\ LET req == requests[r]
           started == [req EXCEPT !.generation_attempts = @ + 1]
       IN  \/ /\ requests' = [requests EXCEPT ![r] =
                     CASE req.pc = "retrieve" -> [req EXCEPT !.pc = "generate"]
                       [] req.pc = "generate" ->
                            [started EXCEPT
                                !.pc = GenerateEdges(_should_evaluate(started))]
                       [] req.pc = "guardrails" -> [req EXCEPT !.pc = "assemble"]
                       [] req.pc = "assemble" -> [req EXCEPT !.pc = "END"]
                       [] OTHER -> req]
              /\ req.pc # "evaluate"
              /\ UNCHANGED ACTIVE_REQUESTS
           \/ /\ req.pc = "evaluate"
              /\ \E high \in BOOLEAN :
                     requests' = [requests EXCEPT ![r] =
                         [req EXCEPT !.pc = EvaluateEdges(
                             IF high /\ req.generation_attempts < MAX_REGENERATION_ATTEMPTS
                             THEN "regenerate" ELSE "continue")]]
              /\ UNCHANGED ACTIVE_REQUESTS
           \/ /\ requests' = [requests EXCEPT ![r] = [req EXCEPT !.pc = "raised"]]
              /\ ACTIVE_REQUESTS' = Finally(ACTIVE_REQUESTS, TRUE)
    /\ UNCHANGED <<pc, state, response, error, calls, last_generated,
                   last_evaluation, http, call, ret, _cache, tasks, llm>>

\* ainvoke returned: execute builds the QueryResponse and returns it, or the
\* construction raises; the finally runs in both cases
execute_exit(r) ==
    /\ requests[r].pc = "END"
    /\ \E raising \in BOOLEAN :
           /\ requests' = [requests EXCEPT ![r] =
                  [@ EXCEPT !.pc = IF raising THEN "raised" ELSE "returned"]]
           /\ ACTIVE_REQUESTS' = Finally(ACTIVE_REQUESTS, raising)
    /\ UNCHANGED <<pc, state, response, error, calls, last_generated,
                   last_evaluation, http, call, ret, _cache, tasks, llm>>

\* the event loop runs one coroutine at a time, from one suspension to the next
NextRequests ==
    \E r \in 1..NumRequests :
        \/ execute_enter(r)
        \/ ainvoke(r)
        \/ execute_exit(r)

SpecRequests == Init /\ [][NextRequests]_vars

\* ================================================================ claims

\* the evaluation held in a state reports hallucination_score > 0.8
EvalHigh(st) ==
    st.evaluation # None /\ st.evaluation[1].hallucination_score > 8000

\* the evaluation held in a state has a FLAGGED or FAILED verdict
EvalFlagged(st) ==
    st.evaluation # None /\ st.evaluation[1].status \in {"FLAGGED", "FAILED"}

\* C1: generate never runs more than MAX_REGENERATION_ATTEMPTS (2) times; when
\* the workflow reaches guardrails with an evaluation above 0.8 (so every
\* evaluation of the request was above 0.8) it has generated exactly twice and
\* carries the text the last generate returned and the result of the evaluate
\* call made on that text.
C1_RegenerationBound ==
    /\ calls.generate <= 2
    /\ state.generation_attempts = calls.generate
    /\ (pc = "guardrails" /\ EvalHigh(state)) =>
          /\ calls.generate = 2
          /\ state.response_text = last_generated[1]
          /\ last_evaluation[1].response_text = last_generated[1]
          /\ state.evaluation = last_evaluation[1].result

C1_Witness ==
    /\ pc = "guardrails"
    /\ EvalHigh(state)
    /\ calls.generate = 2
    /\ calls.evaluate = 2

\* C2: a request whose stages do not raise reaches assemble and then END, for
\* both values of include_evaluation and every evaluation outcome; no node but
\* generate and evaluate runs twice and the regenerate edge is taken at most
\* once.
C2_Terminates ==
    /\ [](/\ calls.regenerate <= 1
          /\ calls.retrieve <= 1
          /\ calls.generate <= calls.regenerate + 1
          /\ calls.evaluate <= calls.regenerate + 1
          /\ calls.guardrails <= 1
          /\ calls.assemble <= 1)
    /\ (pc = "retrieve") ~> (pc = "raised" \/ pc = "assemble")
    /\ (pc = "assemble") ~> (pc = "END")

C2_Witness ==
    /\ pc = "END"
    /\ calls.regenerate = 1
    /\ calls.assemble = 1

\* C3: _determine_status returns FAILED whenever hallucination_score > 0.8,
\* whatever the consistency score, the confidence score and the flag list.
C3_HardCeiling ==
    (ret # None /\ call[1].hallucination_score > 8000) => ret[1] = "FAILED"

C3_Witness ==
    /\ ret # None
    /\ call[1].hallucination_score = 8001
    /\ call[1].consistency_score = 10000
    /\ call[1].confidence_score = 10000
    /\ call[1].flags = <<>>

\* C4: with no flag and the three thresholds cleared (hallucination <= 0.7,
\* consistency >= 0.8, confidence >= 0.6) _determine_status returns PASSED.
C4_CleanPass ==
    (/\ ret # None
     /\ call[1].flags = <<>>
     /\ call[1].hallucination_score <= 7000
     /\ call[1].consistency_score >= 8000
     /\ call[1].confidence_score >= 6000) => ret[1] = "PASSED"

C4_Witness ==
    /\ ret = Some("PASSED")
    /\ call[1].flags = <<>>
    /\ call[1].hallucination_score = 7000
    /\ call[1].consistency_score = 8000
    /\ call[1].confidence_score = 6000

\* C5: a step of evaluate that does not raise goes to generate exactly when the
\* new evaluation has hallucination_score > 0.8 and fewer than 2 generations
\* were made, and to guardrails otherwise.
C5_RegenerateIff ==
    [][ (pc = "evaluate" /\ pc' # "raised") =>
          /\ pc' \in {"generate", "guardrails"}
          /\ (pc' = "generate") <=>
                 (/\ state'.evaluation[1].hallucination_score > 8000
                  /\ state'.generation_attempts < 2) ]_vars

C5_Witness ==
    /\ pc = "generate"
    /\ calls.regenerate = 1
    /\ EvalHigh(state)

\* C6: a step of generate that does not raise goes to evaluate exactly when
\* include_evaluation is true and to guardrails otherwise; without evaluation
\* the pipeline is never called, one generation is made and the evaluation of
\* the state and of the returned response is None.
C6_EvaluateIff ==
    /\ [](/\ (pc = "evaluate" => state.include_evaluation)
          /\ (~state.include_evaluation =>
                 /\ calls.evaluate = 0
                 /\ calls.generate <= 1
                 /\ last_evaluation = None
                 /\ state.evaluation = None)
          /\ (pc = "returned" /\ ~state.include_evaluation =>
                 /\ calls.generate = 1
                 /\ response[1].evaluation = None))
    /\ [][ (pc = "generate" /\ pc' # "raised") =>
              pc' = (IF state.include_evaluation THEN "evaluate"
                     ELSE "guardrails") ]_vars

C6_Witness ==
    /\ pc = "returned"
    /\ ~state.include_evaluation
    /\ response[1].evaluation = None

\* the calls whose failure is the failure of one evaluation signal source
SignalSources ==
    {"hallucination_judge_call", "hallucination_judge_output",
     "semantic_similarity", "consistency_sample", "pairwise_judge_call"}

\* C7: the failure of one evaluation signal source never aborts the request:
\* evaluate does not let it out.
C7_SignalFailuresRecovered ==
    ~(/\ pc = "raised"
      /\ error.stage = "evaluate"
      /\ error.exc.origin \in SignalSources)

\* C8: when every sample generation fails, score returns exactly 0.5 with
\* num_samples = 0 and the discrepancy note, raises nothing and makes no
\* pairwise judge call.
C8_AllSamplesFail ==
    (ret # None /\ \A i \in DOMAIN call[1].samples : ~call[1].samples[i]) =>
        /\ ret[1].exc = NoExc
        /\ ret[1].consistency_score = 5000
        /\ ret[1].num_samples = 0
        /\ ret[1].discrepancies = <<"Failed to generate comparison samples">>
        /\ ret[1].judge_calls = 0

C8_Witness ==
    /\ ret # None
    /\ call[1].samples = <<FALSE, FALSE>>
    /\ ret[1].consistency_score = 5000

C10_NoPartialResponse ==
    /\ (pc = "raised" => error.exc # NoExc)
    /\ (error.exc # NoExc => response = None /\ pc \in {"raised", "replied"})
    /\ (http # None /\ error.exc # NoExc =>
           http[1].status = 500 /\ http[1].body = None)
    /\ (http # None /\ http[1].status = 200 =>
           error.exc = NoExc /\ response # None /\ http[1].body = response)

C10_Witness ==
    /\ pc = "raised"
    /\ error.stage = "evaluate"
    /\ calls.evaluate = 2
    /\ last_generated # None

\* C11: generate and embed_texts make at most 3 attempts each; a call that
\* returned or raised makes no further attempt; a call raises only after its
\* third attempt failed, and then the typed error (LLMError, EmbeddingError);
\* every call ends, by returning or by raising.
C11_BoundedRetries ==
    /\ [](/\ llm.attempt_number <= 3
          /\ llm.provider_calls = llm.attempt_number
          /\ tasks[1].attempt_number <= 3
          /\ tasks[1].provider_calls <= tasks[1].attempt_number)
    /\ [](llm.pc = "raised" =>
              llm.attempt_number = 3 /\ llm.exc.cls = "LLMError")
    /\ [](tasks[1].pc = "raised" =>
              tasks[1].attempt_number = 3 /\ tasks[1].exc.cls = "EmbeddingError")
    /\ [](llm.pc = "returned" => llm.ret # None /\ llm.exc = NoExc)
    /\ [](tasks[1].pc = "returned" => tasks[1].ret # None /\ tasks[1].exc = NoExc)
    /\ [][ /\ (llm.pc \in {"returned", "raised"} => llm' = llm)
           /\ (tasks[1].pc \in {"returned", "raised"} => tasks'[1] = tasks[1]) ]_vars
    /\ (llm.pc = "create") ~> (llm.pc \in {"returned", "raised"})
    /\ (tasks[1].pc = "body") ~> (tasks[1].pc \in {"returned", "raised"})

C11_Witness ==
    /\ llm.pc = "raised"
    /\ llm.provider_calls = 3
    /\ tasks[1].pc = "returned"
    /\ tasks[1].attempt_number = 3
    /\ tasks[1].provider_calls = 3

\* C12: whatever the interleaving of the embed_texts calls, every cache entry
\* is the embedding of the text whose key it is stored under, and every call
\* that returned gives one vector per input text, in input order, each the
\* embedding of its text.
C12_CacheNeverCorrupted ==
    /\ \A k \in DOMAIN _cache :
           \E t \in Texts : k = _cache_key(t) /\ _cache[k] = Embedding(t)
    /\ \A c \in 1..NumCalls :
           tasks[c].pc = "returned" =>
               /\ Len(tasks[c].ret[1]) = Len(tasks[c].texts)
               /\ \A i \in 1..Len(tasks[c].texts) :
                      tasks[c].ret[1][i] = Embedding(tasks[c].texts[i])

\* two calls raced on the same miss: both asked the provider on their first
\* attempt for a text the other one was also embedding
C12_Witness ==
    /\ tasks[1].pc = "returned"
    /\ tasks[2].pc = "returned"
    /\ tasks[1].texts = <<"revenue", "net income">>
    /\ tasks[2].texts = <<"net income", "revenue">>
    /\ tasks[1].attempt_number = 1
    /\ tasks[2].attempt_number = 1
    /\ tasks[1].uncached_indices = <<1, 2>>
    /\ tasks[2].uncached_indices = <<1, 2>>
    /\ _cache_key("revenue") \in DOMAIN _cache

\* C13 (as the code has it): the regenerate edge changes nothing in the state:
\* the chunks, the citations and the attempt counter persist and the retriever
\* runs once per request; the previous text and the previous evaluation stay
\* in the state until the second generate and the second evaluate overwrite
\* them, so that guardrails after a regeneration sees the second attempt's
\* text and the evaluation made of it.
C13_RegenerateOverwrites ==
    /\ [](calls.retrieve <= 1)
    /\ [][ (pc = "evaluate" /\ pc' = "generate") =>
              /\ state'.evaluation # None
              /\ state'.evaluation = last_evaluation'[1].result
              /\ state' = [state EXCEPT !.evaluation = state'.evaluation]
              /\ calls'.retrieve = calls.retrieve ]_vars
    /\ [][ (pc = "generate" /\ calls.regenerate = 1 /\ pc' = "evaluate") =>
              /\ state'.chunk_texts = state.chunk_texts
              /\ state'.citations = state.citations
              /\ state'.generation_attempts = state.generation_attempts + 1
              /\ state'.evaluation = state.evaluation
              /\ state'.response_text = last_generated'[1]
              /\ calls'.retrieve = calls.retrieve ]_vars
    /\ []((pc = "guardrails" /\ calls.regenerate = 1) =>
              /\ calls.evaluate = 2
              /\ state.response_text = last_generated[1]
              /\ last_evaluation[1].response_text = state.response_text
              /\ state.evaluation = last_evaluation[1].result)

\* the second generate has run on the retrieved chunks and the state still
\* holds the first attempt's evaluation
C13_Witness ==
    /\ pc = "evaluate"
    /\ calls.regenerate = 1
    /\ calls.generate = 2
    /\ calls.evaluate = 1
    /\ calls.retrieve = 1
    /\ state.chunk_texts # <<>>
    /\ EvalHigh(state)

\* C13 as stated: from re-entry into generate the state no longer holds the
\* previous attempt's evaluation, and the retriever was not invoked again.
C13_PriorDiscarded ==
    (pc = "generate" /\ calls.regenerate >= 1) =>
        /\ state.evaluation = None
        /\ calls.retrieve = 1

\* C14: a step of guardrails leaves state.evaluation as it was, whatever PII
\* or content violation it finds, and calls the pipeline no more; it changes
\* nothing but the response text, the PII count, the content-filter outcome
\* and the warnings.
C14_GuardrailsKeepEvaluation ==
    [][ pc = "guardrails" =>
          /\ state'.evaluation = state.evaluation
          /\ last_evaluation' = last_evaluation
          /\ calls'.evaluate = calls.evaluate
          /\ state' = [state EXCEPT
                          !.response_text = state'.response_text,
                          !.pii_entities_found = state'.pii_entities_found,
                          !.content_filter_passed = state'.content_filter_passed,
                          !.warnings = state'.warnings] ]_vars

\* guardrails has redacted PII and removed investment advice from an
\* evaluated response
C14_Witness ==
    /\ pc = "assemble"
    /\ state.evaluation # None
    /\ state.evaluation = last_evaluation[1].result
    /\ state.pii_entities_found > 0
    /\ ~state.content_filter_passed
    /\ state.response_text.removed
    /\ state.response_text # last_generated[1]

\* the fused ranking holds each candidate once, best score first
FusedRanking(fused, semantic, keyword) ==
    /\ {fused[i].chunk_id : i \in 1..Len(fused)}
           = {(semantic \o keyword)[i] : i \in 1..Len(semantic \o keyword)}
    /\ \A i, j \in 1..Len(fused) : fused[i].chunk_id = fused[j].chunk_id => i = j
    /\ \A i \in 1..(Len(fused) - 1) : fused[i].rrf_score >= fused[i + 1].rrf_score

C16_ConfidenceBounded ==
    ret # None =>
        \A r \in {ret[1].a, ret[1].b} :
            /\ r.confidence_score \in 0..SCALE
            /\ r.source_coverage_score \in 0..SCALE
            /\ r.citation_density_score \in 0..SCALE
            /\ r.specificity_score \in 0..SCALE
            /\ r.hedging_penalty \in 0..SCALE
            /\ r.retrieval_relevance_score \in 0..SCALE

\* C17: whatever the judge reports, also scores outside [0,1], and whatever
\* the entity overlap and the similarity, also a negative cosine, a detect
\* that returns gives hallucination_score and factual_grounding_score each in
\* [0,1]; nothing is asked of their sum.
C17_DetectClamped ==
    (ret # None /\ ret[1].exc = NoExc) =>
        /\ ret[1].hallucination_score \in 0..SCALE
        /\ ret[1].factual_grounding_score \in 0..SCALE

\* the response is the text of one of the chunks, word for word
ClaimsVerbatim(text, source_chunks) ==
    \E i \in 1..Len(source_chunks) : text = source_chunks[i]

\* no amount and no percentage of the response stands in a chunk
ClaimsAbsent(text, source_chunks) ==
    \A j \in 1..Len(text) :
        text[j] \in DollarAmounts \cup Percentages =>
            \A i \in 1..Len(source_chunks) :
                \A k \in 1..Len(source_chunks[i]) : source_chunks[i][k] # text[j]

\* C18: for every source set, a response whose claims are all absent from the
\* sources gets an entity overlap score strictly lower than a response whose
\* claims are drawn verbatim from the sources.
C18_AbsentScoresLower ==
    (/\ call # None
     /\ call[1].fn = "_entity_overlap_check"
     /\ ret # None
     /\ ClaimsVerbatim(call[1].verbatim, call[1].source_chunks)
     /\ ClaimsAbsent(call[1].absent, call[1].source_chunks))
    => ret[1].absent < ret[1].verbatim

\* response_a has no hedging phrase and at least 3 signals, response_b has at
\* least 3 hedging phrases and no signal; query, sources, citations and the two
\* scores handed in are the same for both by construction of the call
C19_Compared ==
    /\ call # None
    /\ call[1].fn = "ConfidenceScorer.score"
    /\ ret # None
    /\ call[1].response_a.hedge_count = 0
    /\ call[1].response_a.signal_count >= 3
    /\ call[1].response_b.hedge_count >= 3
    /\ call[1].response_b.signal_count = 0

\* C19 as stated: with query, sources, citations, hallucination_score and
\* consistency_score fixed, the response with zero hedging phrases and at
\* least 3 signals gets a strictly higher confidence_score than the response
\* with at least 3 hedging phrases and no signal, whatever the two scores
\* handed in are; and more hedging phrases never give a lower hedging_penalty.
C19_SpecificBeatsHedged ==
    /\ C19_Compared => ret[1].a.confidence_score > ret[1].b.confidence_score
    /\ (/\ call # None
        /\ call[1].fn = "ConfidenceScorer.score"
        /\ ret # None
        /\ call[1].response_a.hedge_count >= call[1].response_b.hedge_count)
       => ret[1].a.hedging_penalty >= ret[1].b.hedging_penalty

\* C19, amended: the strict order holds when hallucination_score and
\* consistency_score are in [0,1], where the clamp of the composite does not
\* act; the hedging_penalty never falls with more hedging phrases.
C19_SpecificBeatsHedgedInRange ==
    /\ (/\ C19_Compared
        /\ call[1].hallucination_score \in 0..SCALE
        /\ call[1].consistency_score \in 0..SCALE)
       => ret[1].a.confidence_score > ret[1].b.confidence_score
    /\ (/\ call # None
        /\ call[1].fn = "ConfidenceScorer.score"
        /\ ret # None
        /\ call[1].response_a.hedge_count >= call[1].response_b.hedge_count)
       => ret[1].a.hedging_penalty >= ret[1].b.hedging_penalty

C19_Witness ==
    /\ C19_Compared
    /\ call[1].hallucination_score \in 0..SCALE
    /\ call[1].consistency_score \in 0..SCALE
    /\ ret[1].a.confidence_score > ret[1].b.confidence_score
    /\ ret[1].a.hedging_penalty = 0
    /\ ret[1].b.hedging_penalty = SCALE

\* the flags of the last evaluation that returned a result
C20_Evaluated ==
    /\ last_evaluation # None
    /\ last_evaluation[1].result # None

\* C20: for hallucination_score <= 0.8 three or more flags give FAILED and
\* otherwise at least one flag gives FLAGGED; the hallucination, consistency
\* and confidence stages append at most one flag each, exactly when the score
\* breaches its threshold, so an evaluation carries between 0 and 3 flags.
C20_VerdictFollowsFlags ==
    C20_Evaluated =>
        LET r == last_evaluation[1].result[1]
            count(flag) == Cardinality({ i \in 1..Len(r.flags) : r.flags[i] = flag })
        IN  /\ Len(r.flags) \in 0..3
            /\ \A flag \in FlagNames : count(flag) <= 1
            /\ count(FLAG_HALLUCINATION) = 1
                   <=> r.hallucination_score > hallucination_threshold
            /\ count(FLAG_CONSISTENCY) = 1
                   <=> r.semantic_consistency_score < consistency_threshold
            /\ count(FLAG_CONFIDENCE) = 1
                   <=> r.confidence_score < min_confidence_score
            /\ r.hallucination_score <= HARD_FAIL_SCORE =>
                   /\ Len(r.flags) >= 3 => r.status = "FAILED"
                   /\ Len(r.flags) \in 1..2 => r.status = "FLAGGED"

C20_Witness ==
    /\ C20_Evaluated
    /\ last_evaluation[1].result[1].hallucination_score <= HARD_FAIL_SCORE
    /\ Len(last_evaluation[1].result[1].flags) = 3
    /\ last_evaluation[1].result[1].status = "FAILED"

\* evaluate came as far as the verdict: neither detect nor the consistency
\* scorer raised
C21_VerdictDetermined ==
    /\ call # None
    /\ call[1].fn = "evaluate"
    /\ ret # None
    /\ ret[1].stages.hallucination.exc = NoExc
    /\ ret[1].stages.consistency.exc = NoExc

\* C21: in every run of evaluate the flag list is empty exactly when the three
\* scores handed to the verdict function satisfy their thresholds
\* (hallucination <= 0.7, consistency >= 0.8, confidence >= 0.6), so the last
\* FLAGGED of the verdict rule, no flag but a threshold not satisfied, is
\* never reached.
C21_FlagsMatchThresholds ==
    C21_VerdictDetermined =>
        LET st == ret[1].stages
        IN  (st.flags = <<>>)
            <=> (/\ Le(st.hallucination.hallucination_score, hallucination_threshold)
                 /\ Ge(st.consistency_score, consistency_threshold)
                 /\ Ge(st.confidence.confidence_score, min_confidence_score))

\* C22: the evaluate stage asks for the consistency sub-step exactly when the
\* generation attempt counter is 1; the consistency scorer is called at most
\* once in a request and never for the response of a second generation.
C22_ConsistencyFirstAttemptOnly ==
    /\ [](calls.consistency <= 1)
    /\ [][ pc = "evaluate" =>
             /\ last_evaluation'[1].run_consistency = (state.generation_attempts = 1)
             /\ (calls'.consistency > calls.consistency =>
                     /\ state.generation_attempts = 1
                     /\ calls.generate = 1) ]_vars

C22_Witness ==
    /\ calls.generate = 2
    /\ calls.evaluate = 2
    /\ calls.consistency = 1
    /\ last_evaluation # None
    /\ ~last_evaluation[1].run_consistency

\* the consistency scorer is skipped and detect returned
C23_Skipped ==
    /\ call # None
    /\ call[1].fn = "evaluate"
    /\ ret # None
    /\ ~(call[1].run_consistency /\ call[1].messages # <<>>)
    /\ ret[1].stages.hallucination.exc = NoExc

C24_Scored ==
    /\ call # None
    /\ call[1].fn = "score"
    /\ ret # None

\* C24: a sample whose generation fails is dropped and the batch goes on: the
\* samples obtained are all compared, and the num_samples returned is the
\* number of samples obtained, at most the number asked for.
C24_FailedSampleDropped ==
    C24_Scored =>
        LET got == Cardinality({ i \in DOMAIN call[1].samples : call[1].samples[i] })
        IN  /\ ret[1].exc = NoExc =>
                   /\ ret[1].num_samples = got
                   /\ ret[1].num_samples <= call[1].num_samples
                   /\ ret[1].judge_calls = got
            /\ (\A i \in DOMAIN call[1].pairs :
                    call[1].pairs[i].kind \in {"ok", "parse_error"})
               => ret[1].exc = NoExc

C24_Witness ==
    /\ C24_Scored
    /\ call[1].samples = <<FALSE, TRUE>>
    /\ call[1].pairs[1].kind = "ok"
    /\ ret[1].exc = NoExc
    /\ ret[1].num_samples = 1
    /\ ret[1].judge_calls = 1
    /\ ret[1].consistency_score = call[1].pairs[1].score

\* the judged scores of the pairs, 0.5 standing for an answer that cannot be
\* read
C25_PairScores(pairs) ==
    [i \in 1..Len(pairs) |-> IF pairs[i].kind = "ok" THEN pairs[i].score ELSE NEUTRAL]

\* C25: a pairwise judge answer that cannot be read as a JSON object with a
\* numeric consistency_score makes that pair 0.5 and nothing else: the other
\* pairs keep their judged scores, the final score is the mean over all pairs
\* obtained, and score does not raise.
C25_UnreadablePairIsNeutral ==
    (/\ C24_Scored
     /\ call[1].pairs # <<>>
     /\ \A i \in 1..Len(call[1].pairs) :
            call[1].pairs[i].kind \in {"ok", "parse_error", "value_error"})
    => /\ ret[1].exc = NoExc
       /\ ret[1].consistency_score =
              RoundDiv(SumSeq(C25_PairScores(call[1].pairs)), Len(call[1].pairs))

\* C26: when the hallucination judge's output is not the expected JSON
\* structure, the judge signal is the neutral 0.5 / 0.5 without claims, the
\* entity overlap and the semantic similarity are still computed and combined
\* with it, and detect returns its result.
C26_MalformedJudgeIsNeutral ==
    (/\ call # None
     /\ call[1].fn = "detect"
     /\ ret # None
     /\ call[1].judge.kind \in {"parse_error", "value_error"})
    => LET entity == _entity_overlap_check(call[1].response_entities,
                                           call[1].source_entities)
           semantic == _semantic_similarity_check(call[1].source_chunks,
                                                  call[1].semantic)
       IN  /\ ret[1].exc = NoExc
           /\ ret[1].claims = 0
           /\ ret[1].entity_overlap_score = entity
           /\ ret[1].semantic_similarity_score = semantic
           /\ ret[1].hallucination_score = CombineHallucination(NEUTRAL, entity, semantic)
           /\ ret[1].factual_grounding_score = CombineGrounding(NEUTRAL, entity, semantic)

\* weight / (k + rank + 1) for the place (rank + 1) of a chunk in a list, as a
\* multiple of 1 / (10 * den); place 0, the chunk is not in the list, gives zero
C27_Term(weight, place, den) ==
    IF place = 0 THEN 0 ELSE weight * (den \div (RRF_K + place))

\* the places of chunk_id in results, or 0 alone when it is in none
C27_Places(results, chunk_id) ==
    IF \E i \in 1..Len(results) : results[i] = chunk_id
    THEN { i \in 1..Len(results) : results[i] = chunk_id }
    ELSE {0}

\* C27: every chunk identity stands at most once in the fused output, and its
\* fused score is alpha/(k + rank_semantic + 1) + (1 - alpha)/(k + rank_keyword + 1)
\* with k = 60, a list without the chunk contributing zero, for every semantic
\* list and every keyword list retrieve can build, a keyword list put
\* together from the results of several terms included.
C27_FusedScoreIsRRF ==
    (call # None /\ call[1].fn = "_reciprocal_rank_fusion" /\ ret # None) =>
        LET fused == ret[1].first
            den == RrfDenominator(Max2(Len(call[1].semantic), Len(call[1].keyword)))
        IN  /\ \A i, j \in 1..Len(fused) :
                   fused[i].chunk_id = fused[j].chunk_id => i = j
            /\ \A i \in 1..Len(fused) :
                   \E rs \in C27_Places(call[1].semantic, fused[i].chunk_id) :
                   \E rk \in C27_Places(call[1].keyword, fused[i].chunk_id) :
                       fused[i].rrf_score =
                           C27_Term(call[1].alpha, rs, den)
                           + C27_Term(10 - call[1].alpha, rk, den)

\* C28: every ConsistencyResult has consistency_score in [0,1], whatever the
\* pairwise judge reports, also a consistency_score below 0 or above 1, so that
\* the EvaluationResult built from it keeps its bound on
\* semantic_consistency_score.
C28_ConsistencyBounded ==
    (C24_Scored /\ ret[1].exc = NoExc) => ret[1].consistency_score \in 0..SCALE

\* C29: when the workflow reaches assemble with an evaluation, the evaluation
\* is the result of the evaluate call that ran after the last generate, on
\* the very text that generate returned; no generate runs after the last
\* evaluate; retrieve runs once, before any generate; guardrails runs once,
\* after every evaluate.
C29_StageOrder ==
    /\ []((pc = "assemble" /\ state.evaluation # None) =>
              /\ last_evaluation # None
              /\ state.evaluation = last_evaluation[1].result
              /\ last_evaluation[1].response_text = last_generated[1]
              /\ calls.evaluate = calls.generate
              /\ calls.retrieve = 1
              /\ calls.guardrails = 1)
    /\ [][ /\ pc = "retrieve" => calls.retrieve = 0 /\ calls.generate = 0
           /\ pc = "generate" =>
                  /\ calls.retrieve = 1
                  /\ calls.evaluate = calls.generate
                  /\ calls.guardrails = 0
           /\ pc = "evaluate" =>
                  /\ calls.generate = calls.evaluate + 1
                  /\ calls.guardrails = 0
                  /\ state.response_text = last_generated[1]
           /\ pc = "guardrails" => calls.guardrails = 0 /\ calls.retrieve = 1 ]_vars

C29_Witness ==
    /\ pc = "assemble"
    /\ state.evaluation # None
    /\ calls.generate = 2
    /\ calls.evaluate = 2
    /\ calls.guardrails = 1
    /\ state.response_text # last_generated[1]

\* the execute calls that were entered and have not returned or raised
C30_InFlight ==
    { r \in 1..NumRequests : requests[r].pc \notin {"idle", "returned", "raised"} }

\* C30: the gauge is the number of execute calls in flight: execute adds one
\* on entry and takes one off on exit, on success and on every failure, so
\* under every interleaving of the requests it is never negative and is back
\* at its initial value when all requests have finished.
C30_GaugeCountsInFlight ==
    /\ [](/\ ACTIVE_REQUESTS = Cardinality(C30_InFlight)
          /\ ACTIVE_REQUESTS >= 0
          /\ (\A r \in 1..NumRequests : requests[r].pc \in {"returned", "raised"})
                 => ACTIVE_REQUESTS = 0)
    /\ [][ \A r \in 1..NumRequests :
             /\ (requests[r].pc = "idle" /\ requests'[r].pc # "idle")
                    => ACTIVE_REQUESTS' = ACTIVE_REQUESTS + 1
             /\ (r \in C30_InFlight /\ requests'[r].pc \in {"returned", "raised"})
                    => ACTIVE_REQUESTS' = ACTIVE_REQUESTS - 1 ]_vars

\* one request failed in a node while the other was in flight, then the other
\* returned
C30_Witness ==
    /\ requests[1].pc = "raised"
    /\ requests[2].pc = "returned"
    /\ requests[2].generation_attempts = 2
    /\ ACTIVE_REQUESTS = 0

====
